---- MODULE Spec2Model ----
(***************************************************************************)
(* Model of the transaction pipeline of irishub-sdk-js, src/modules/tx.ts: *)
(* createMsg / buildTx, sign, sign_signDoc, broadcast and buildAndSend of  *)
(* class Tx, and of queryAccount of the bank module.                       *)
(*                                                                         *)
(* JavaScript values that the code tests for truthiness or nullishness     *)
(* (baseTx.account_number, baseTx.sequence, the fields of the account      *)
(* returned by queryAccount) are records [t, n]: undefined, the number n,  *)
(* or the decimal string of n.                                             *)
(***************************************************************************)
EXTENDS Integers, Sequences, FiniteSets, TLC

(***************************************************************************)
(* Bounds of the model.                                                    *)
(***************************************************************************)
\* calls in flight (promises awaiting a reply) at a time
MaxCalls == 1
\* signatures a transaction object may collect before the host stops signing it
MaxSigs == 2
\* messages in one buildTx call
MaxMsgs == 2
\* buildAndSend pipelines in flight at a time
MaxPipelines == 2
\* Bank.queryAccount calls in flight at a time
MaxQueries == 2

(***************************************************************************)
(* JavaScript values.                                                      *)
(***************************************************************************)
Undef == [t |-> "undefined", n |-> 0]
Num(k) == [t |-> "number", n |-> k]
Str(k) == [t |-> "string", n |-> k]

\* ToBoolean: undefined and the number 0 are falsy, a decimal string is not
\* empty and so truthy (also "0")
Truthy(v) == CASE v.t = "undefined" -> FALSE
               [] v.t = "number" -> v.n # 0
               [] OTHER -> TRUE

\* String(v) of a number or a string
JSString(v) == IF v.t = "number" THEN Str(v.n) ELSE v

\* a ?? b
Nullish(a, b) == IF a.t = "undefined" THEN b ELSE a

\* a || b
OrElse(a, b) == IF Truthy(a) THEN a ELSE b

(***************************************************************************)
(* Errors: SdkError(msg, code), code defaulting to CODES.InvalidRequest.   *)
(***************************************************************************)
CODES_InvalidPubkey == 8
CODES_InvalidRequest == 18
CODES_KeyNotFound == 22
CODES_InvalidPassword == 23
CODES_InvalidType == 29
CODES_IncorrectAccountSequence == 32
CODES_Panic == 111222

SdkError(msg, code) == [msg |-> msg, code |-> code]
NoError == [msg |-> "", code |-> 0]
\* the rejection of a transport request or query, passed through as it is
NetworkError == [msg |-> "network error", code |-> -1]

(***************************************************************************)
(* The key store of the host (client.config.keyDAO).                       *)
(***************************************************************************)
KeyNames == {"alice", "carol"}
NoKey == [address |-> "", privateKey |-> ""]
\* keyDAO.read(name): the record, or nothing
KeyRead(name) == IF name \in KeyNames
                   THEN [address |-> "iaa1" \o name, privateKey |-> "enc:" \o name]
                   ELSE NoKey
\* keyDAO.decrypt(privateKey, password): the raw key, or an empty result
KeyDecrypt(privateKey, password) ==
    IF password = "pw" /\ \E name \in KeyNames : privateKey = "enc:" \o name
      THEN "priv:" \o (CHOOSE name \in KeyNames : privateKey = "enc:" \o name)
      ELSE ""

(***************************************************************************)
(* Crypto.                                                                 *)
(***************************************************************************)
getPublicKeyFromPrivateKey(privKey) == "pub(" \o privKey \o ")"
generateSignature(signDoc, privKey) == [doc |-> signDoc, key |-> privKey]

(***************************************************************************)
(* types.ProtoTx: the transaction object.                                  *)
(***************************************************************************)
ChainId == "test-1"
NewTx(msgList) == [msgs |-> msgList, signerInfos |-> << >>, signatures |-> << >>]
NoTx == [msgs |-> << >>, signerInfos |-> << >>, signatures |-> << >>]
hasPubKey(tx) == Len(tx.signerInfos) > 0
\* setPubKey(pubkey, sequence): adds a signer info, sequence defaulting to '0'
setPubKey(tx, pubKey, sequence) ==
    [tx EXCEPT !.signerInfos =
        Append(@, [pubKey |-> pubKey, sequence |-> OrElse(sequence, Str(0))])]
\* addSignature(signature): appends to the signature list
addSignature(tx, signature) == [tx EXCEPT !.signatures = Append(@, signature)]
\* getSignDoc(account_number, chain_id): fails without a public key or an
\* account number
getSignDocError(tx, accountNumber) ==
    IF ~hasPubKey(tx) THEN SdkError("please set pubKey", CODES_InvalidPubkey)
    ELSE IF accountNumber.t = "undefined"
      THEN SdkError("account_number is empty", CODES_IncorrectAccountSequence)
    ELSE NoError
getSignDoc(tx, accountNumber) ==
    [body |-> tx.msgs, authInfo |-> tx.signerInfos,
     accountNumber |-> JSString(accountNumber), chainId |-> ChainId]
\* getData(): the serialized transaction
getData(tx) == [body |-> tx.msgs, authInfo |-> tx.signerInfos, sigs |-> tx.signatures]

(***************************************************************************)
(* createMsg and buildTx.                                                  *)
(***************************************************************************)
\* the case labels of createMsg's switch (members of types.TxType)
TypedTags == {"MsgSend", "MsgMultiSend", "MsgDelegate", "MsgUndelegate",
              "MsgBeginRedelegate", "MsgWithdrawDelegatorReward",
              "MsgSetWithdrawAddress", "MsgWithdrawValidatorCommission",
              "MsgFundCommunityPool", "MsgIssueToken", "MsgEditToken",
              "MsgMintToken", "MsgTransferTokenOwner", "MsgIssueDenom",
              "MsgMintNFT", "MsgEditNFT", "MsgTransferNFT", "MsgBurnNFT"}
CoinswapTags == {"MsgAddLiquidity", "MsgRemoveLiquidity", "MsgSwapOrder"}
KnownTags == TypedTags \cup CoinswapTags
\* tags that are no case label
UnknownTags == {"MsgUnknown", ""}
AllTags == KnownTags \cup UnknownTags
Values == {"v1", "v2"}

\* the class createMsg constructs for a tag
Constructor(tag) == IF tag = "MsgBeginRedelegate" THEN "MsgRedelegate" ELSE tag
\* new types.<class>(value)
TypedMsg(class, value) == [class |-> class, value |-> value]
\* let msg: any = {}
EmptyMsg == [class |-> "Object", value |-> ""]

\* mutant: the default branch returns the initial {} instead of throwing
createMsg_NoThrow(txMsg) ==
    IF txMsg.type \in TypedTags
      THEN [error |-> NoError, msg |-> TypedMsg(Constructor(txMsg.type), txMsg.value)]
      ELSE [error |-> NoError, msg |-> EmptyMsg]

createMsg(txMsg) ==
    IF txMsg.type \in TypedTags
      THEN [error |-> NoError, msg |-> TypedMsg(Constructor(txMsg.type), txMsg.value)]
    ELSE IF txMsg.type \in CoinswapTags
      THEN [error |-> NoError, msg |-> EmptyMsg]
    ELSE [error |-> SdkError("not exist tx type", CODES_InvalidType), msg |-> EmptyMsg]

\* msgs.map(createMsg): the index of the first message createMsg throws on, or 0
FirstThrow(msgs) ==
    LET bad == {i \in 1..Len(msgs) : createMsg(msgs[i]).error # NoError}
    IN IF bad = {} THEN 0 ELSE CHOOSE i \in bad : \A j \in bad : i <= j

\* client.auth.newStdTx(msgList, baseTx)
newStdTx(msgList) == NewTx(msgList)

buildTx(msgs) ==
    IF FirstThrow(msgs) # 0
      THEN [error |-> createMsg(msgs[FirstThrow(msgs)]).error, tx |-> NoTx]
      ELSE [error |-> NoError,
            tx |-> newStdTx([i \in 1..Len(msgs) |-> createMsg(msgs[i]).msg])]

(***************************************************************************)
(* sign.                                                                   *)
(***************************************************************************)
\* is.empty of a string
is_empty(s) == s = ""

\* mutant: the decrypt capability is required before the credentials are
\* validated
signCheck_DecryptFirst(baseTx, decrypt) ==
    IF ~decrypt
      THEN SdkError("Decrypt method of KeyDAO not implemented", CODES_Panic)
    ELSE IF is_empty(baseTx.from)
      THEN SdkError("baseTx.from of the key can not be empty", CODES_InvalidRequest)
    ELSE IF is_empty(baseTx.password)
      THEN SdkError("baseTx.password of the key can not be empty", CODES_InvalidRequest)
    ELSE IF KeyRead(baseTx.from) = NoKey
      THEN SdkError("Key with name '" \o baseTx.from \o "' not found", CODES_KeyNotFound)
    ELSE NoError

\* mutant: a missing key record is not detected
signCheck_NoKeyCheck(baseTx, decrypt) ==
    IF is_empty(baseTx.from)
      THEN SdkError("baseTx.from of the key can not be empty", CODES_InvalidRequest)
    ELSE IF is_empty(baseTx.password)
      THEN SdkError("baseTx.password of the key can not be empty", CODES_InvalidRequest)
    ELSE IF ~decrypt
      THEN SdkError("Decrypt method of KeyDAO not implemented", CODES_Panic)
    ELSE NoError

\* mutant: the key record is looked up before the decrypt capability is
\* required
signCheck_KeyFirst(baseTx, decrypt) ==
    IF is_empty(baseTx.from)
      THEN SdkError("baseTx.from of the key can not be empty", CODES_InvalidRequest)
    ELSE IF is_empty(baseTx.password)
      THEN SdkError("baseTx.password of the key can not be empty", CODES_InvalidRequest)
    ELSE IF KeyRead(baseTx.from) = NoKey
      THEN SdkError("Key with name '" \o baseTx.from \o "' not found", CODES_KeyNotFound)
    ELSE IF ~decrypt
      THEN SdkError("Decrypt method of KeyDAO not implemented", CODES_Panic)
    ELSE NoError

\* lines 118-131: the checks before the account number is looked at
signCheck(baseTx, decrypt) ==
    IF is_empty(baseTx.from)
      THEN SdkError("baseTx.from of the key can not be empty", CODES_InvalidRequest)
    ELSE IF is_empty(baseTx.password)
      THEN SdkError("baseTx.password of the key can not be empty", CODES_InvalidRequest)
    ELSE IF ~decrypt
      THEN SdkError("Decrypt method of KeyDAO not implemented", CODES_Panic)
    ELSE IF KeyRead(baseTx.from) = NoKey
      THEN SdkError("Key with name '" \o baseTx.from \o "' not found", CODES_KeyNotFound)
    ELSE NoError

\* keyDAO.read is called once the first three checks have passed
signKeyReads(baseTx, decrypt) ==
    IF ~is_empty(baseTx.from) /\ ~is_empty(baseTx.password) /\ decrypt THEN 1 ELSE 0

\* mutant: the account is queried only when both values are missing
needsQuery_BothMissing(baseTx) == ~Truthy(baseTx.account_number) /\ ~Truthy(baseTx.sequence)

\* line 136
needsQuery(baseTx) == ~Truthy(baseTx.account_number) \/ ~Truthy(baseTx.sequence)

\* lines 133-134
initAccountNumber(baseTx) == Nullish(baseTx.account_number, Str(0))
initSequence(baseTx) == OrElse(baseTx.sequence, Str(0))

\* lines 138-139
queriedAccountNumber(baseTx, account) ==
    IF Truthy(account.accountNumber)
      THEN OrElse(JSString(account.accountNumber), Str(0))
      ELSE initAccountNumber(baseTx)
queriedSequence(baseTx, account) ==
    IF Truthy(account.sequence)
      THEN OrElse(JSString(account.sequence), Str(0))
      ELSE initSequence(baseTx)

\* mutant: the public key is derived and attached whether or not one is there
signAttachKey_Always(tx, privKey, sequence) ==
    setPubKey(tx, getPublicKeyFromPrivateKey(privKey), OrElse(sequence, Undef))

\* lines 146-149
signAttachKey(tx, privKey, sequence) ==
    IF ~hasPubKey(tx)
      THEN setPubKey(tx, getPublicKeyFromPrivateKey(privKey), OrElse(sequence, Undef))
      ELSE tx

\* mutant: the public key is attached before the decrypted key is tested
signTail_KeyBeforeTest(tx, baseTx, accountNumber, sequence) ==
    LET privKey == KeyDecrypt(KeyRead(baseTx.from).privateKey, baseTx.password)
        keyed == signAttachKey(tx, privKey, sequence)
        acc == OrElse(accountNumber, Undef)
    IN IF privKey = ""
         THEN [error |-> SdkError("decrypto the private key error", CODES_InvalidPassword),
               tx |-> keyed, derived |-> IF hasPubKey(tx) THEN 0 ELSE 1]
       ELSE IF getSignDocError(keyed, acc) # NoError
         THEN [error |-> getSignDocError(keyed, acc), tx |-> keyed,
               derived |-> IF hasPubKey(tx) THEN 0 ELSE 1]
       ELSE [error |-> NoError,
             tx |-> addSignature(keyed, generateSignature(getSignDoc(keyed, acc), privKey)),
             derived |-> IF hasPubKey(tx) THEN 0 ELSE 1]

\* lines 142-152: decrypt, attach the public key, sign, attach the signature
signTail(tx, baseTx, accountNumber, sequence) ==
    LET privKey == KeyDecrypt(KeyRead(baseTx.from).privateKey, baseTx.password)
        keyed == signAttachKey(tx, privKey, sequence)
        acc == OrElse(accountNumber, Undef)
    IN IF privKey = ""
         THEN [error |-> SdkError("decrypto the private key error", CODES_InvalidPassword),
               tx |-> tx, derived |-> 0]
       ELSE IF getSignDocError(keyed, acc) # NoError
         THEN [error |-> getSignDocError(keyed, acc), tx |-> keyed,
               derived |-> IF hasPubKey(tx) THEN 0 ELSE 1]
       ELSE [error |-> NoError,
             tx |-> addSignature(keyed, generateSignature(getSignDoc(keyed, acc), privKey)),
             derived |-> IF hasPubKey(tx) THEN 0 ELSE 1]

(***************************************************************************)
(* sign_signDoc(signDoc, name, password).                                  *)
(***************************************************************************)
NoSignature == [doc |-> getSignDoc(NoTx, Undef), key |-> ""]
\* what Crypto.generateSignature throws when it rejects a key
CryptoError == [msg |-> "invalid private key", code |-> -2]

\* lines 171-188; rejects: whether Crypto.generateSignature throws on an
\* empty key instead of signing with it
sign_signDoc(signDoc, name, password, decrypt, rejects) ==
    LET privKey == KeyDecrypt(KeyRead(name).privateKey, password)
    IN IF is_empty(name)
         THEN [error |-> SdkError("Name of the key can not be empty", CODES_InvalidRequest),
               signature |-> NoSignature, keyReads |-> 0, decrypts |-> 0]
       ELSE IF is_empty(password)
         THEN [error |-> SdkError("Password of the key can not be empty",
                                  CODES_InvalidRequest),
               signature |-> NoSignature, keyReads |-> 0, decrypts |-> 0]
       ELSE IF ~decrypt
         THEN [error |-> SdkError("Decrypt method of KeyDAO not implemented",
                                  CODES_InvalidRequest),
               signature |-> NoSignature, keyReads |-> 0, decrypts |-> 0]
       ELSE IF KeyRead(name) = NoKey
         THEN [error |-> SdkError("Key with name '" \o name \o "' not found",
                                  CODES_KeyNotFound),
               signature |-> NoSignature, keyReads |-> 1, decrypts |-> 0]
       ELSE IF privKey = "" /\ rejects
         THEN [error |-> CryptoError, signature |-> NoSignature, keyReads |-> 1,
               decrypts |-> 1]
       ELSE [error |-> NoError, signature |-> generateSignature(signDoc, privKey),
             keyReads |-> 1, decrypts |-> 1]

(***************************************************************************)
(* broadcast: the replies of the node and what the code makes of them.     *)
(***************************************************************************)
UndefS == "<undefined>"
Codes == {0, 1, 2}
\* check_tx / deliver_tx of a broadcast_tx_commit response
NoPhase == [present |-> FALSE, code |-> 0, log |-> UndefS, gas_wanted |-> UndefS,
            gas_used |-> UndefS, info |-> UndefS, tags |-> UndefS]
CheckPhases == {NoPhase} \cup
    {[present |-> TRUE, code |-> k, log |-> "check log", gas_wanted |-> "1",
      gas_used |-> "1", info |-> "check info", tags |-> UndefS] : k \in Codes}
DeliverPhases == {NoPhase} \cup
    {[present |-> TRUE, code |-> k, log |-> "deliver log", gas_wanted |-> "200",
      gas_used |-> "100", info |-> "deliver info", tags |-> tg] :
        k \in Codes, tg \in {UndefS, "dGFn"}}
CommitResponses == [code : {0}, log : {UndefS}, hash : {"HASH"}, height : {Num(10)},
                    check_tx : CheckPhases, deliver_tx : DeliverPhases]
\* a broadcast_tx_sync / broadcast_tx_async response; the node may add a
\* check_tx object to it
SyncPhases == {NoPhase} \cup {p \in CheckPhases : p.code = 1}
SyncResponses == [code : Codes, log : {"log"}, hash : {"HASH"}, height : {Undef},
                  check_tx : SyncPhases, deliver_tx : {NoPhase}]
Responses == CommitResponses \cup SyncResponses
NoResponse == [code |-> 0, log |-> UndefS, hash |-> "", height |-> Undef,
               check_tx |-> NoPhase, deliver_tx |-> NoPhase]
NoResult == [hash |-> "", height |-> Undef, gas_wanted |-> UndefS, gas_used |-> UndefS,
             info |-> UndefS, tags |-> UndefS]

\* types.RpcMethods
BroadcastTxAsync == "broadcast_tx_async"
BroadcastTxSync == "broadcast_tx_sync"
BroadcastTxCommit == "broadcast_tx_commit"

\* Utils.bytesToBase64, Utils.decodeTags
bytesToBase64(bytes) == [base64 |-> bytes]
decodeTags(tags) == "decoded(" \o tags \o ")"

\* mutant: mode Sync falls through to the default case
broadcastMethod_SyncFallsThrough(mode) ==
    CASE mode = "Commit" -> BroadcastTxCommit
      [] OTHER -> BroadcastTxAsync

\* the switch of broadcast (lines 92-103)
broadcastMethod(mode) ==
    CASE mode = "Commit" -> BroadcastTxCommit
      [] mode = "Sync" -> BroadcastTxSync
      [] OTHER -> BroadcastTxAsync

\* mutant: the code of the delivery phase is not tested
commitResult_NoDeliverCheck(response) ==
    IF response.check_tx.present /\ response.check_tx.code > 0
      THEN [error |-> SdkError(response.check_tx.log, response.check_tx.code),
            result |-> NoResult]
    ELSE [error |-> NoError,
          result |-> [hash |-> response.hash, height |-> response.height,
                      gas_wanted |-> response.deliver_tx.gas_wanted,
                      gas_used |-> response.deliver_tx.gas_used,
                      info |-> response.deliver_tx.info,
                      tags |-> IF response.deliver_tx.tags # UndefS
                                 THEN decodeTags(response.deliver_tx.tags)
                                 ELSE UndefS]]

\* mutant: the delivery phase is tested before the check phase
commitResult_DeliverFirst(response) ==
    IF response.deliver_tx.present /\ response.deliver_tx.code > 0
      THEN [error |-> SdkError(response.deliver_tx.log, response.deliver_tx.code),
            result |-> NoResult]
    ELSE IF response.check_tx.present /\ response.check_tx.code > 0
      THEN [error |-> SdkError(response.check_tx.log, response.check_tx.code),
            result |-> NoResult]
    ELSE [error |-> NoError,
          result |-> [hash |-> response.hash, height |-> response.height,
                      gas_wanted |-> response.deliver_tx.gas_wanted,
                      gas_used |-> response.deliver_tx.gas_used,
                      info |-> response.deliver_tx.info,
                      tags |-> IF response.deliver_tx.tags # UndefS
                                 THEN decodeTags(response.deliver_tx.tags)
                                 ELSE UndefS]]

\* the then-callback of broadcastTxCommit (lines 223-247)
commitResult(response) ==
    IF response.check_tx.present /\ response.check_tx.code > 0
      THEN [error |-> SdkError(response.check_tx.log, response.check_tx.code),
            result |-> NoResult]
    ELSE IF response.deliver_tx.present /\ response.deliver_tx.code > 0
      THEN [error |-> SdkError(response.deliver_tx.log, response.deliver_tx.code),
            result |-> NoResult]
    ELSE [error |-> NoError,
          result |-> [hash |-> response.hash, height |-> response.height,
                      gas_wanted |-> response.deliver_tx.gas_wanted,
                      gas_used |-> response.deliver_tx.gas_used,
                      info |-> response.deliver_tx.info,
                      tags |-> IF response.deliver_tx.tags # UndefS
                                 THEN decodeTags(response.deliver_tx.tags)
                                 ELSE UndefS]]

\* newTxResult(hash) (lines 294-307)
newTxResult(hash) == [NoResult EXCEPT !.hash = hash]

\* mutant: a check phase found in the response decides as in mode Commit
syncResult_ReadsCheckPhase(response) ==
    IF response.check_tx.present /\ response.check_tx.code > 0
      THEN [error |-> SdkError(response.check_tx.log, response.check_tx.code),
            result |-> NoResult]
    ELSE IF response.code > 0
      THEN [error |-> SdkError(response.log, response.code), result |-> NoResult]
    ELSE [error |-> NoError, result |-> newTxResult(response.hash)]

\* the then-callbacks of broadcastTx (lines 274-280) and of broadcast (96-102)
syncResult(response) ==
    IF response.code > 0
      THEN [error |-> SdkError(response.log, response.code), result |-> NoResult]
      ELSE [error |-> NoError, result |-> newTxResult(response.hash)]

broadcastResult(method, response) ==
    IF method = BroadcastTxCommit THEN commitResult(response) ELSE syncResult(response)

(***************************************************************************)
(* Bank.queryAccount: the two abciQuery calls and the merge of their       *)
(* answers.                                                                *)
(***************************************************************************)
AuthAccountPath == "custom/auth/account"
AllBalancesPath == "custom/bank/all_balances"
NoCoins == << >>
NoBankAccount == [address |-> "", accountNumber |-> Undef, sequence |-> Undef,
                  coins |-> NoCoins]
\* a sub-query: not issued, pending, answered with a value, or failed with
\* an error
NoInfo == [state |-> "none", value |-> NoBankAccount, error |-> NoError]
NoBalances == [state |-> "none", value |-> NoCoins, error |-> NoError]

\* the two abciQuery calls of lines 43-54, in the order of the array
subQueries(address) ==
    << [path |-> AuthAccountPath, address |-> address],
       [path |-> AllBalancesPath, address |-> address] >>

\* mutant: the account info is returned as it was answered
mergeAccount_InfoOnly(acc, bal) == acc

\* the then-callback of lines 57-62
mergeAccount(acc, bal) == [acc EXCEPT !.coins = bal]

(***************************************************************************)
(* State.                                                                  *)
(***************************************************************************)
VARIABLES
    decrypt,   \* whether client.config.keyDAO exposes decrypt
    txs,       \* the transaction objects by reference: 0 is the one the host
               \* holds, c > 0 the one buildAndSend call c built for itself
    calls,     \* the calls in flight: one frame per pending promise
    last       \* the call that settled last, with its inputs, outcome and
               \* effects, until the next call is left pending

vars == <<decrypt, txs, calls, last>>

CallIds == 1..MaxCalls
HostTx == 0

\* inputs
Froms == {"", "alice", "bob"}
Passwords == {"", "pw", "bad"}
AccountNumbers == {Undef, Num(0), Str(5)}
Sequences == {Undef, Str(2)}
Modes == {"undefined", "Async", "Sync", "Commit"}
BaseTxs == [from : Froms, password : Passwords, account_number : AccountNumbers,
            sequence : Sequences, mode : {"undefined"}]
NoBaseTx == [from |-> "", password |-> "", account_number |-> Undef,
             sequence |-> Undef, mode |-> "undefined"]
\* what client.auth.queryAccount resolves to
Accounts == [accountNumber : {Num(0), Num(7)}, sequence : {Num(0), Num(3)}]
NoAccount == [accountNumber |-> Undef, sequence |-> Undef]

Idle == [pc |-> "idle", op |-> "", tx |-> 0, baseTx |-> NoBaseTx, msgs |-> << >>,
         accountNumber |-> Undef, sequence |-> Undef, keyReads |-> 0,
         queries |-> 0, requests |-> << >>, before |-> NoTx, derived |-> 0,
         account |-> NoAccount, decrypts |-> 0, address |-> "",
         subqueries |-> << >>, info |-> NoInfo, balances |-> NoBalances,
         arrivals |-> << >>]

NoCall == [op |-> "", call |-> 0, tx |-> 0, baseTx |-> NoBaseTx, msgs |-> << >>,
           error |-> NoError, before |-> NoTx, after |-> NoTx, keyReads |-> 0,
           queries |-> 0, requests |-> << >>, derived |-> 0, account |-> NoAccount,
           accountNumber |-> Undef, sequence |-> Undef, response |-> NoResponse,
           result |-> NoResult, msg |-> EmptyMsg,
           signDoc |-> NoSignature.doc, signature |-> NoSignature, decrypts |-> 0,
           address |-> "", subqueries |-> << >>, info |-> NoInfo,
           balances |-> NoBalances, arrivals |-> << >>, bankAccount |-> NoBankAccount]

\* the settled call of frame f
Settled(c, f) ==
    [NoCall EXCEPT !.op = f.op, !.call = c, !.tx = f.tx, !.baseTx = f.baseTx,
       !.msgs = f.msgs, !.keyReads = f.keyReads, !.queries = f.queries,
       !.requests = f.requests, !.before = f.before, !.derived = f.derived,
       !.account = f.account, !.accountNumber = f.accountNumber,
       !.sequence = f.sequence, !.decrypts = f.decrypts, !.address = f.address,
       !.subqueries = f.subqueries, !.info = f.info, !.balances = f.balances,
       !.arrivals = f.arrivals]

Init ==
    /\ decrypt \in BOOLEAN
    /\ txs = [r \in {HostTx} \cup CallIds |-> NoTx]
    /\ calls = [c \in CallIds |-> Idle]
    /\ last = NoCall

\* a new call takes the first free frame
Free(c) == calls[c].pc = "idle" /\ \A d \in DOMAIN calls : d < c => calls[d].pc # "idle"

\* sign calls in flight on transaction r
Pending(r) ==
    Cardinality({c \in DOMAIN calls : calls[c].pc = "account" /\ calls[c].tx = r})

(***************************************************************************)
(* The host builds a transaction (buildTx) and keeps it in place of the    *)
(* one it held.                                                            *)
(***************************************************************************)
BuildTx(msgs) ==
    /\ Pending(HostTx) = 0
    /\ LET r == buildTx(msgs)
       IN /\ txs' = IF r.error = NoError THEN [txs EXCEPT ![HostTx] = r.tx] ELSE txs
          /\ last' = [NoCall EXCEPT !.op = "buildTx", !.msgs = msgs, !.error = r.error,
                        !.before = txs[HostTx], !.after = r.tx]
    /\ UNCHANGED <<decrypt, calls>>

(***************************************************************************)
(* The host attaches a public key itself (ProtoTx.setPubKey), as it does   *)
(* for a transaction whose signer is known beforehand.                     *)
(***************************************************************************)
SetPubKey ==
    /\ txs[HostTx] # NoTx
    /\ ~hasPubKey(txs[HostTx])
    /\ txs' = [txs EXCEPT ![HostTx] = setPubKey(@, "pub(other)", Str(9))]
    /\ last' = [NoCall EXCEPT !.op = "setPubKey", !.before = txs[HostTx],
                  !.after = txs'[HostTx]]
    /\ UNCHANGED <<decrypt, calls>>

(***************************************************************************)
(* broadcast(signedTx, mode): one transport request is issued.             *)
(***************************************************************************)
\* the frame f once it has issued the request for transaction object tx
Requesting(f, tx, mode) ==
    [f EXCEPT !.pc = "broadcast",
       !.requests = Append(@, [method |-> broadcastMethod(mode),
                               tx |-> bytesToBase64(getData(tx))])]

\* mutant: broadcast refuses a transaction without a signature
BroadcastCall_RequiresSignature(c, mode) ==
    /\ Free(c)
    /\ txs[HostTx] # NoTx
    /\ IF txs[HostTx].signatures = << >>
         THEN /\ last' = [NoCall EXCEPT !.op = "broadcast", !.call = c,
                            !.baseTx = [NoBaseTx EXCEPT !.mode = mode],
                            !.before = txs[HostTx], !.after = txs[HostTx],
                            !.error = SdkError("tx is not signed", CODES_InvalidRequest)]
              /\ UNCHANGED calls
         ELSE /\ calls' = [calls EXCEPT ![c] =
                   Requesting([Idle EXCEPT !.op = "broadcast", !.tx = HostTx,
                                 !.baseTx = [NoBaseTx EXCEPT !.mode = mode],
                                 !.before = txs[HostTx]], txs[HostTx], mode)]
              /\ last' = NoCall
    /\ UNCHANGED <<decrypt, txs>>

BroadcastCall(c, mode) ==
    /\ Free(c)
    /\ txs[HostTx] # NoTx
    /\ calls' = [calls EXCEPT ![c] =
          Requesting([Idle EXCEPT !.op = "broadcast", !.tx = HostTx,
                        !.baseTx = [NoBaseTx EXCEPT !.mode = mode],
                        !.before = txs[HostTx]], txs[HostTx], mode)]
    /\ last' = NoCall
    /\ UNCHANGED <<decrypt, txs>>

\* the transport request resolves
BroadcastReply(c, response) ==
    /\ calls[c].pc = "broadcast"
    /\ LET method == calls[c].requests[Len(calls[c].requests)].method
           r == broadcastResult(method, response)
       IN /\ response \in IF method = BroadcastTxCommit THEN CommitResponses
                                                        ELSE SyncResponses
          /\ last' = [Settled(c, calls[c]) EXCEPT !.error = r.error,
                        !.result = r.result, !.response = response,
                        !.after = IF calls[c].op = "broadcast" THEN calls[c].before
                                                               ELSE txs[calls[c].tx]]
    /\ calls' = [calls EXCEPT ![c] = Idle]
    /\ txs' = IF calls[c].tx = HostTx THEN txs ELSE [txs EXCEPT ![calls[c].tx] = NoTx]
    /\ UNCHANGED decrypt

\* the transport request rejects
BroadcastFail(c) ==
    /\ calls[c].pc = "broadcast"
    /\ last' = [Settled(c, calls[c]) EXCEPT !.error = NetworkError,
                  !.after = IF calls[c].op = "broadcast" THEN calls[c].before
                                                         ELSE txs[calls[c].tx]]
    /\ calls' = [calls EXCEPT ![c] = Idle]
    /\ txs' = IF calls[c].tx = HostTx THEN txs ELSE [txs EXCEPT ![calls[c].tx] = NoTx]
    /\ UNCHANGED decrypt

(***************************************************************************)
(* sign(stdTx, baseTx), alone or as the second stage of buildAndSend: the  *)
(* call runs to its first await or to its end.                             *)
(***************************************************************************)
\* mutant: buildAndSend goes on to broadcast also when sign has thrown
SignTail_BroadcastAnyway(c, f, tx) ==
    LET r == signTail(tx, f.baseTx, f.accountNumber, f.sequence)
        g == [f EXCEPT !.before = tx, !.derived = r.derived, !.decrypts = 1]
        over == f.op = "sign"
    IN /\ txs' = [txs EXCEPT ![f.tx] = IF over /\ f.tx # HostTx THEN NoTx ELSE r.tx]
       /\ last' = IF over THEN [Settled(c, g) EXCEPT !.error = r.error, !.after = r.tx]
                          ELSE NoCall
       /\ calls' = [calls EXCEPT ![c] = IF over THEN Idle ELSE [g EXCEPT !.pc = "signed"]]

\* lines 142-152 run in frame f on transaction object tx; a sign call
\* settles; a buildAndSend call whose sign succeeded is left at its await
\* of line 74, the transaction signed and no request issued yet
SignTail(c, f, tx) ==
    LET r == signTail(tx, f.baseTx, f.accountNumber, f.sequence)
        g == [f EXCEPT !.before = tx, !.derived = r.derived, !.decrypts = 1]
        over == f.op = "sign" \/ r.error # NoError
    IN /\ txs' = [txs EXCEPT ![f.tx] = IF over /\ f.tx # HostTx THEN NoTx ELSE r.tx]
       /\ last' = IF over THEN [Settled(c, g) EXCEPT !.error = r.error, !.after = r.tx]
                          ELSE NoCall
       /\ calls' = [calls EXCEPT ![c] = IF over THEN Idle ELSE [g EXCEPT !.pc = "signed"]]

\* lines 118-140 up to the await, in frame f on transaction object tx
SignHead(c, f, tx) ==
    LET err == signCheck(f.baseTx, decrypt)
        g == [f EXCEPT !.keyReads = signKeyReads(f.baseTx, decrypt),
                !.accountNumber = initAccountNumber(f.baseTx),
                !.sequence = initSequence(f.baseTx)]
    IN IF err # NoError
         THEN /\ last' = [Settled(c, g) EXCEPT !.error = err, !.before = tx,
                            !.after = tx]
              /\ UNCHANGED <<txs, calls>>
       ELSE IF needsQuery(f.baseTx)
         THEN /\ calls' = [calls EXCEPT ![c] = [g EXCEPT !.pc = "account", !.queries = 1]]
              /\ txs' = [txs EXCEPT ![f.tx] = tx]
              /\ last' = NoCall
       ELSE SignTail(c, g, tx)

SignCall(c, baseTx) ==
    /\ Free(c)
    /\ txs[HostTx] # NoTx
    /\ Len(txs[HostTx].signatures) + Pending(HostTx) < MaxSigs
    /\ SignHead(c, [Idle EXCEPT !.op = "sign", !.tx = HostTx, !.baseTx = baseTx],
                txs[HostTx])
    /\ UNCHANGED decrypt

\* queryAccount resolves
AccountReply(c, account) ==
    /\ calls[c].pc = "account"
    /\ SignTail(c, [calls[c] EXCEPT !.account = account,
                      !.accountNumber = queriedAccountNumber(calls[c].baseTx, account),
                      !.sequence = queriedSequence(calls[c].baseTx, account)],
                txs[calls[c].tx])
    /\ UNCHANGED decrypt

\* queryAccount rejects: the await throws and the call rejects with that error
AccountFail(c) ==
    /\ calls[c].pc = "account"
    /\ last' = [Settled(c, calls[c]) EXCEPT !.error = NetworkError,
                  !.before = txs[calls[c].tx], !.after = txs[calls[c].tx]]
    /\ calls' = [calls EXCEPT ![c] = Idle]
    /\ txs' = IF calls[c].tx = HostTx THEN txs ELSE [txs EXCEPT ![calls[c].tx] = NoTx]
    /\ UNCHANGED decrypt

(***************************************************************************)
(* buildAndSend(msgs, baseTx): buildTx, then sign, then broadcast.         *)
(***************************************************************************)
\* mutant: the pipelines keep the transaction they work on in one place
SendCall_SharedTx(c, msgs, baseTx) ==
    /\ Free(c)
    /\ LET r == buildTx(msgs)
           f == [Idle EXCEPT !.op = "buildAndSend", !.tx = 1, !.baseTx = baseTx,
                   !.msgs = msgs]
       IN IF r.error # NoError
            THEN /\ last' = [Settled(c, f) EXCEPT !.error = r.error]
                 /\ UNCHANGED <<txs, calls>>
            ELSE SignHead(c, f, r.tx)
    /\ UNCHANGED decrypt

SendCall(c, msgs, baseTx) ==
    /\ Free(c)
    /\ LET r == buildTx(msgs)
           f == [Idle EXCEPT !.op = "buildAndSend", !.tx = c, !.baseTx = baseTx,
                   !.msgs = msgs]
       IN IF r.error # NoError
            THEN /\ last' = [Settled(c, f) EXCEPT !.error = r.error]
                 /\ UNCHANGED <<txs, calls>>
            ELSE SignHead(c, f, r.tx)
    /\ UNCHANGED decrypt

\* the await of line 74 resumes with the signed transaction: line 76 calls
\* broadcast, which issues the request
BroadcastStage(c) ==
    /\ calls[c].pc = "signed"
    /\ calls' = [calls EXCEPT ![c] =
                   Requesting(calls[c], txs[calls[c].tx], calls[c].baseTx.mode)]
    /\ last' = NoCall
    /\ UNCHANGED <<decrypt, txs>>

\* the host builds a transaction and signs it at once:
\* sign(buildTx(msgs, baseTx), baseTx), keeping no other reference to it
SignFresh(c, msgs, baseTx) ==
    /\ Free(c)
    /\ buildTx(msgs).error = NoError
    /\ SignHead(c, [Idle EXCEPT !.op = "sign", !.tx = c, !.baseTx = baseTx,
                      !.msgs = msgs], buildTx(msgs).tx)
    /\ UNCHANGED decrypt

(***************************************************************************)
(* sign_signDoc(signDoc, name, password): synchronous, on no transaction.  *)
(***************************************************************************)
SignDocCall(signDoc, name, password, rejects) ==
    /\ LET r == sign_signDoc(signDoc, name, password, decrypt, rejects)
       IN last' = [NoCall EXCEPT !.op = "sign_signDoc",
                     !.baseTx = [NoBaseTx EXCEPT !.from = name, !.password = password],
                     !.signDoc = signDoc, !.error = r.error,
                     !.signature = r.signature, !.keyReads = r.keyReads,
                     !.decrypts = r.decrypts,
                     !.before = txs[HostTx], !.after = txs[HostTx]]
    /\ UNCHANGED <<decrypt, txs, calls>>

(***************************************************************************)
(* Bank.queryAccount(address): Promise.all of the two sub-queries, then    *)
(* the merge. Promise.all fulfils when both promises have fulfilled and    *)
(* rejects as soon as one of them rejects.                                 *)
(***************************************************************************)
QueryAccountCall(c, address) ==
    /\ Free(c)
    /\ calls' = [calls EXCEPT ![c] =
          [Idle EXCEPT !.op = "queryAccount", !.pc = "queries", !.address = address,
             !.subqueries = subQueries(address),
             !.info = [NoInfo EXCEPT !.state = "pending"],
             !.balances = [NoBalances EXCEPT !.state = "pending"]]]
    /\ last' = NoCall
    /\ UNCHANGED <<decrypt, txs>>

\* frame f has both answers: the then-callback runs and the call fulfils
QueryAccountDone(c, f) ==
    /\ last' = [Settled(c, f) EXCEPT
                  !.bankAccount = mergeAccount(f.info.value, f.balances.value)]
    /\ calls' = [calls EXCEPT ![c] = Idle]

\* the account info sub-query is answered
InfoReply(c, acc) ==
    /\ calls[c].pc = "queries"
    /\ calls[c].info.state = "pending"
    /\ acc.address = calls[c].address
    /\ LET f == [calls[c] EXCEPT !.info = [NoInfo EXCEPT !.state = "answered",
                                                         !.value = acc],
                                 !.arrivals = Append(@, "info")]
       IN IF f.balances.state = "answered"
            THEN QueryAccountDone(c, f)
            ELSE calls' = [calls EXCEPT ![c] = f] /\ UNCHANGED last
    /\ UNCHANGED <<decrypt, txs>>

\* the balances sub-query is answered
BalancesReply(c, bal) ==
    /\ calls[c].pc = "queries"
    /\ calls[c].balances.state = "pending"
    /\ LET f == [calls[c] EXCEPT !.balances = [NoBalances EXCEPT !.state = "answered",
                                                                 !.value = bal],
                                 !.arrivals = Append(@, "balances")]
       IN IF f.info.state = "answered"
            THEN QueryAccountDone(c, f)
            ELSE calls' = [calls EXCEPT ![c] = f] /\ UNCHANGED last
    /\ UNCHANGED <<decrypt, txs>>

\* the account info sub-query fails: the call rejects with its error
InfoFail(c, err) ==
    /\ calls[c].pc = "queries"
    /\ calls[c].info.state = "pending"
    /\ last' = [Settled(c, [calls[c] EXCEPT
                               !.info = [NoInfo EXCEPT !.state = "failed", !.error = err],
                               !.arrivals = Append(@, "info")])
                  EXCEPT !.error = err]
    /\ calls' = [calls EXCEPT ![c] = Idle]
    /\ UNCHANGED <<decrypt, txs>>

\* the balances sub-query fails: the call rejects with its error
BalancesFail(c, err) ==
    /\ calls[c].pc = "queries"
    /\ calls[c].balances.state = "pending"
    /\ last' = [Settled(c, [calls[c] EXCEPT
                               !.balances = [NoBalances EXCEPT !.state = "failed",
                                                               !.error = err],
                               !.arrivals = Append(@, "balances")])
                  EXCEPT !.error = err]
    /\ calls' = [calls EXCEPT ![c] = Idle]
    /\ UNCHANGED <<decrypt, txs>>

(***************************************************************************)
(* Specifications.                                                         *)
(***************************************************************************)
SmallMsgs == {<<[type |-> "MsgSend", value |-> "v1"]>>}
BadMsgs == {<<[type |-> "MsgSend", value |-> "v1"],
             [type |-> "MsgUnknown", value |-> "v1"]>>}
SendBaseTxs == {b \in [from : Froms, password : Passwords,
                       account_number : {Undef, Str(5)}, sequence : {Undef, Str(2)},
                       mode : {"undefined", "Commit"}] :
                   b.account_number = Undef => b.sequence = Undef}
FreshBaseTxs == {b \in SendBaseTxs : b.mode = "undefined" /\ b.account_number # Undef}
\* the pipelines run: a list that builds with any baseTx, a list with an
\* unknown tag with good and with empty credentials
SendInputs ==
    (SmallMsgs \X SendBaseTxs)
    \cup (BadMsgs \X {b \in SendBaseTxs : /\ b.mode = "undefined"
                                          /\ b.account_number # Undef
                                          /\ b.sequence # Undef
                                          /\ b.from # "bob"
                                          /\ b.password = "pw"})
\* replies of the node to a pipeline: accepted, refused at the check phase,
\* failed at the delivery phase
SendResponses ==
    {r \in CommitResponses : /\ r.check_tx.present /\ r.check_tx.code < 2
                             /\ r.deliver_tx.present /\ r.deliver_tx.code # 1
                             /\ r.deliver_tx.tags # UndefS}
    \cup {r \in SyncResponses : r.code < 2 /\ ~r.check_tx.present}

\* the host signs the transaction it holds
Next ==
    \/ \E msgs \in SmallMsgs : BuildTx(msgs)
    \/ SetPubKey
    \/ \E c \in CallIds, baseTx \in BaseTxs : SignCall(c, baseTx)
    \/ \E c \in CallIds, account \in Accounts : AccountReply(c, account)
    \/ \E c \in CallIds : AccountFail(c)

Spec == Init /\ [][Next]_vars

\* the host signs transactions it has just built and runs buildAndSend pipelines
NextSend ==
    \/ \E c \in CallIds, msgs \in SmallMsgs, baseTx \in FreshBaseTxs : SignFresh(c, msgs, baseTx)
    \/ \E c \in CallIds, in \in SendInputs : SendCall(c, in[1], in[2])
    \/ \E c \in CallIds, account \in Accounts : AccountReply(c, account)
    \/ \E c \in CallIds : AccountFail(c)
    \/ \E c \in CallIds : BroadcastStage(c)
    \/ \E c \in CallIds, response \in SendResponses : BroadcastReply(c, response)
    \/ \E c \in CallIds : BroadcastFail(c)

SpecSend == Init /\ [][NextSend]_vars

\* the host broadcasts the transaction it holds, signed or not
GoodBaseTx == [from |-> "alice", password |-> "pw", account_number |-> Str(5),
               sequence |-> Str(2), mode |-> "undefined"]
NextBroadcast ==
    \/ \E msgs \in SmallMsgs : BuildTx(msgs)
    \/ \E c \in CallIds : SignCall(c, GoodBaseTx)
    \/ \E c \in CallIds, mode \in Modes : BroadcastCall(c, mode)
    \/ \E c \in CallIds, response \in Responses : BroadcastReply(c, response)
    \/ \E c \in CallIds : BroadcastFail(c)

SpecBroadcast == Init /\ [][NextBroadcast]_vars

\* buildAndSend pipelines of two signers run side by side
PipeIds == 1..MaxPipelines
PipeInputs ==
    { << <<[type |-> "MsgSend", value |-> "v1"]>>,
         [from |-> "alice", password |-> "pw", account_number |-> Undef,
          sequence |-> Undef, mode |-> "undefined"] >>,
      << <<[type |-> "MsgSend", value |-> "v2"]>>,
         [from |-> "carol", password |-> "pw", account_number |-> Str(5),
          sequence |-> Undef, mode |-> "Commit"] >>,
      << <<[type |-> "MsgSend", value |-> "v2"]>>,
         [from |-> "carol", password |-> "pw", account_number |-> Str(5),
          sequence |-> Str(2), mode |-> "Sync"] >>,
      << <<[type |-> "MsgSend", value |-> "v1"]>>,
         [from |-> "alice", password |-> "bad", account_number |-> Undef,
          sequence |-> Undef, mode |-> "undefined"] >> }

InitPipelines ==
    /\ decrypt = TRUE
    /\ txs = [r \in {HostTx} \cup PipeIds |-> NoTx]
    /\ calls = [c \in PipeIds |-> Idle]
    /\ last = NoCall

NextPipelines ==
    \/ \E c \in PipeIds, in \in PipeInputs : SendCall(c, in[1], in[2])
    \/ \E c \in PipeIds, account \in Accounts : AccountReply(c, account)
    \/ \E c \in PipeIds : AccountFail(c)
    \/ \E c \in PipeIds : BroadcastStage(c)
    \/ \E c \in PipeIds, response \in SendResponses : BroadcastReply(c, response)
    \/ \E c \in PipeIds : BroadcastFail(c)

SpecPipelines == InitPipelines /\ [][NextPipelines]_vars

\* the host queries accounts through the bank module
QueryIds == 1..MaxQueries
Addresses == {"iaa1alice", "iaa1carol"}
BankAccounts == [address : Addresses, accountNumber : {Num(7)}, sequence : {Num(3)},
                 coins : {NoCoins}]
Balances == {NoCoins, <<[denom |-> "uiris", amount |-> "10"]>>}
QueryErrors == {NetworkError, SdkError("abci query failed", 1)}

InitBank ==
    /\ decrypt = TRUE
    /\ txs = [r \in {HostTx} \cup QueryIds |-> NoTx]
    /\ calls = [c \in QueryIds |-> Idle]
    /\ last = NoCall

NextBank ==
    \/ \E c \in QueryIds, address \in Addresses : QueryAccountCall(c, address)
    \/ \E c \in QueryIds, acc \in BankAccounts : InfoReply(c, acc)
    \/ \E c \in QueryIds, bal \in Balances : BalancesReply(c, bal)
    \/ \E c \in QueryIds, err \in QueryErrors : InfoFail(c, err)
    \/ \E c \in QueryIds, err \in QueryErrors : BalancesFail(c, err)

SpecBank == InitBank /\ [][NextBank]_vars

\* the host signs SignDocs directly, next to building and signing
\* transactions
SignDocs == {getSignDoc(setPubKey(NewTx(<<TypedMsg("MsgSend", "v1")>>),
                                  "pub(priv:alice)", Str(2)), a) :
               a \in {Str(5), Str(7)}}
NextSignDoc ==
    \/ \E msgs \in SmallMsgs : BuildTx(msgs)
    \/ \E c \in CallIds : SignCall(c, GoodBaseTx)
    \/ \E signDoc \in SignDocs, name \in Froms, password \in Passwords,
          rejects \in BOOLEAN : SignDocCall(signDoc, name, password, rejects)

SpecSignDoc == Init /\ [][NextSignDoc]_vars

\* createMsg and buildTx applied to a message list drawn beforehand
TxMsgs == [type : AllTags, value : Values]
MsgLists == UNION {[1..n -> TxMsgs] : n \in 0..MaxMsgs}

InitMsg ==
    /\ decrypt = TRUE
    /\ txs = [r \in {HostTx} \cup CallIds |-> NoTx]
    /\ calls = [c \in CallIds |-> Idle]
    /\ \E msgs \in MsgLists : last = [NoCall EXCEPT !.op = "input", !.msgs = msgs]

\* createMsg(msgs[0])
CreateMsg ==
    /\ last.op = "input"
    /\ Len(last.msgs) > 0
    /\ last' = [NoCall EXCEPT !.op = "createMsg", !.msgs = last.msgs,
                  !.error = createMsg(last.msgs[1]).error,
                  !.msg = createMsg(last.msgs[1]).msg]
    /\ UNCHANGED <<decrypt, txs, calls>>

\* buildTx(msgs, baseTx)
BuildTxInput ==
    /\ last.op = "input"
    /\ BuildTx(last.msgs)

NextMsg == CreateMsg \/ BuildTxInput

SpecMsg == InitMsg /\ [][NextMsg]_vars

(***************************************************************************)
(* Properties.                                                             *)
(***************************************************************************)
ValidationMsgs == {"baseTx.from of the key can not be empty",
                   "baseTx.password of the key can not be empty"}

\* C1: a sign call with an empty from or an empty password fails with the
\* validation error, whatever the decrypt capability, the key store, the
\* account number, the sequence and the transaction are; the key store was
\* not read, no account query was issued and the transaction is as it was.
C1_EmptyCredentialFails ==
    (last.op = "sign" /\ (last.baseTx.from = "" \/ last.baseTx.password = ""))
        => /\ last.error.code = CODES_InvalidRequest
           /\ last.error.msg \in ValidationMsgs
           /\ last.keyReads = 0
           /\ last.queries = 0
           /\ last.after = last.before
           /\ txs[HostTx] = last.before

\* C1 witness: an empty password with a registered key, no decrypt capability
\* and a transaction that already carries a public key
C1_Witness ==
    /\ last.op = "sign"
    /\ last.baseTx.from = "alice"
    /\ last.baseTx.password = ""
    /\ ~decrypt
    /\ hasPubKey(last.before)
    /\ last.error.code = CODES_InvalidRequest

\* C2 as claimed: a sign call for a name the key store has no record of
\* fails with KeyNotFound, whatever the other fields are.
C2_Original ==
    (last.op = "sign" /\ KeyRead(last.baseTx.from) = NoKey)
        => last.error.code = CODES_KeyNotFound

\* C2 amended: a sign call with a non-empty from and password, made while the
\* key store exposes decrypt, for a name the key store has no record of fails
\* with KeyNotFound, whatever the account number, the sequence and the
\* transaction are, without an account query and without changing the
\* transaction.
C2_KeyNotFound ==
    (/\ last.op = "sign"
     /\ last.baseTx.from # ""
     /\ last.baseTx.password # ""
     /\ decrypt
     /\ KeyRead(last.baseTx.from) = NoKey)
        => /\ last.error.code = CODES_KeyNotFound
           /\ last.keyReads = 1
           /\ last.queries = 0
           /\ last.after = last.before

\* C2 witness: an unregistered name with both values supplied
C2_Witness ==
    /\ last.op = "sign"
    /\ last.baseTx.from = "bob"
    /\ last.baseTx.password = "bad"
    /\ last.baseTx.account_number = Str(5)
    /\ last.baseTx.sequence = Str(2)
    /\ last.error.code = CODES_KeyNotFound

\* C3 as claimed: the account query is issued only when account_number or
\* sequence is absent from baseTx (a baseTx carrying both, also 0 or "0",
\* causes no query), and exactly once when one is absent and the checks pass.
C3_QueryOnlyWhenAbsent ==
    /\ \A c \in CallIds :
          calls[c].pc = "account" =>
             (calls[c].baseTx.account_number = Undef \/ calls[c].baseTx.sequence = Undef)
    /\ (last.op = "sign" /\ last.baseTx.account_number # Undef
          /\ last.baseTx.sequence # Undef) => last.queries = 0
    /\ (last.op = "sign" /\ signCheck(last.baseTx, decrypt) = NoError
          /\ (last.baseTx.account_number = Undef \/ last.baseTx.sequence = Undef))
          => last.queries = 1

\* the signature the settled call attached
LastSignature == last.after.signatures[Len(last.after.signatures)]

\* C4 as claimed: after an account query, the account number of the SignDoc
\* and the sequence attached with the public key are the resolver's values.
C4_ResolverValuesUsed ==
    (last.op = "sign" /\ last.queries = 1 /\ last.error = NoError)
        => /\ LastSignature.doc.accountNumber = JSString(last.account.accountNumber)
           /\ last.derived = 1 =>
                last.after.signerInfos[1].sequence = JSString(last.account.sequence)

\* the errors sign and buildTx raise themselves
LocalCodes == {CODES_InvalidRequest, CODES_Panic, CODES_KeyNotFound, CODES_InvalidType}

\* C5 as claimed: a call that ends in a validation, config, not-found,
\* invalid-password or type error has issued no account query and no
\* broadcast request.
C5_Original ==
    (last.op \in {"sign", "buildAndSend"}
       /\ last.error.code \in LocalCodes \cup {CODES_InvalidPassword})
        => (last.queries = 0 /\ last.requests = << >>)

\* C5 amended: a call that ends in a validation, config, not-found or type
\* error has issued no account query and no broadcast request; a call that
\* ends in the invalid-password error has issued no broadcast request, and
\* it has issued the account query exactly when baseTx lacks a truthy account
\* number or sequence.
C5_LocalErrorsBeforeNetwork ==
    /\ (last.op \in {"sign", "buildAndSend"} /\ last.error.code \in LocalCodes)
          => (last.queries = 0 /\ last.requests = << >>)
    /\ (last.op \in {"sign", "buildAndSend"} /\ last.error.code = CODES_InvalidPassword)
          => /\ last.requests = << >>
             /\ last.queries = 1 <=> (~Truthy(last.baseTx.account_number)
                                        \/ ~Truthy(last.baseTx.sequence))
             /\ last.queries \in {0, 1}

\* C5 witness: a pipeline that ends in the invalid-password error after its
\* account query
C5_Witness ==
    /\ last.op = "buildAndSend"
    /\ last.error.code = CODES_InvalidPassword
    /\ last.baseTx.sequence = Undef
    /\ last.baseTx.account_number = Str(5)
    /\ last.queries = 1

\* C6: a successful sign call on a transaction without a public key attaches
\* one public key, derived from the decrypted private key, with the call's
\* sequence, and one signature; on a transaction with a public key it derives
\* none, leaves the signer infos as they were and adds one signature.
C6_OneKeyOneSignature ==
    (last.op = "sign" /\ last.error = NoError)
        => /\ IF hasPubKey(last.before)
                THEN last.derived = 0 /\ last.after.signerInfos = last.before.signerInfos
                ELSE /\ last.derived = 1
                     /\ last.after.signerInfos =
                          << [pubKey |-> getPublicKeyFromPrivateKey(
                                KeyDecrypt(KeyRead(last.baseTx.from).privateKey,
                                           last.baseTx.password)),
                              sequence |-> last.sequence] >>
           /\ Len(last.after.signatures) = Len(last.before.signatures) + 1
           /\ SubSeq(last.after.signatures, 1, Len(last.before.signatures))
                 = last.before.signatures
           /\ LastSignature.key = KeyDecrypt(KeyRead(last.baseTx.from).privateKey,
                                             last.baseTx.password)
           /\ last.after.msgs = last.before.msgs
           /\ txs[HostTx] = last.after

\* C6 witness: a successful sign call on a transaction that carried the
\* public key of another signer
C6_Witness ==
    /\ last.op = "sign"
    /\ last.error = NoError
    /\ last.before.signerInfos = << [pubKey |-> "pub(other)", sequence |-> Str(9)] >>
    /\ last.after.signerInfos = last.before.signerInfos
    /\ Len(last.after.signatures) = 1

\* C7 as claimed: no transaction ever carries more than one signature.
C7_AtMostOneSignature ==
    \A r \in DOMAIN txs : Len(txs[r].signatures) <= 1

\* C8: createMsg fails with InvalidType exactly for the tags that are no
\* known message kind, and a buildTx call whose list holds such a tag fails
\* with that error and produces no transaction.
C8_InvalidTypeIffUnknown ==
    /\ last.op = "createMsg" =>
          /\ last.error.code = CODES_InvalidType <=> last.msgs[1].type \notin KnownTags
          /\ last.error = NoError <=> last.msgs[1].type \in KnownTags
    /\ last.op = "buildTx" =>
          IF \E i \in 1..Len(last.msgs) : last.msgs[i].type \notin KnownTags
            THEN /\ last.error.code = CODES_InvalidType
                 /\ last.after = NoTx
                 /\ txs[HostTx] = last.before
            ELSE /\ last.error = NoError
                 /\ Len(last.after.msgs) = Len(last.msgs)
                 /\ txs[HostTx] = last.after

\* C8 witness: a buildTx call whose second message has an unknown tag
C8_Witness ==
    /\ last.op = "buildTx"
    /\ Len(last.msgs) = 2
    /\ last.msgs[1].type = "MsgSend"
    /\ last.msgs[2].type = "MsgUnknown"
    /\ last.error.code = CODES_InvalidType
    /\ txs[HostTx] = NoTx

\* C9 as claimed: for every tag createMsg accepts, the message returned is
\* the typed variant constructed for that tag from the given value.
C9_AcceptedTagsAreTyped ==
    (last.op = "createMsg" /\ last.error = NoError)
        => last.msg = TypedMsg(Constructor(last.msgs[1].type), last.msgs[1].value)

\* C10: a broadcast in mode Commit whose response has a non-zero check-phase
\* code fails with the check phase's code and log, whatever the delivery
\* phase holds, and returns no height, gas or tags.
C10_CheckPhaseFirst ==
    (/\ last.op = "broadcast"
     /\ last.requests[1].method = BroadcastTxCommit
     /\ last.response # NoResponse
     /\ last.response.check_tx.present
     /\ last.response.check_tx.code # 0)
        => /\ last.error = SdkError(last.response.check_tx.log, last.response.check_tx.code)
           /\ last.result = NoResult

\* C10 witness: both phases report a non-zero code, and not the same one
C10_Witness ==
    /\ last.op = "broadcast"
    /\ last.baseTx.mode = "Commit"
    /\ last.response.check_tx.present
    /\ last.response.check_tx.code = 1
    /\ last.response.deliver_tx.present
    /\ last.response.deliver_tx.code = 2
    /\ last.error = SdkError("check log", 1)

\* C11: a broadcast in mode Commit returns a result exactly when neither the
\* check phase nor the delivery phase of the response has a non-zero code;
\* with a zero or absent check-phase code and a non-zero delivery-phase code
\* it fails with the delivery phase's code and log; a result carries the
\* hash and height of the response and the gas wanted, gas used, info and
\* decoded tags of the delivery phase.
C11_CommitOutcome ==
    (/\ last.op = "broadcast"
     /\ last.baseTx.mode = "Commit"
     /\ last.response # NoResponse)
        => LET check == last.response.check_tx
               deliver == last.response.deliver_tx
               checkFails == check.present /\ check.code # 0
               deliverFails == deliver.present /\ deliver.code # 0
           IN /\ last.error = NoError <=> (~checkFails /\ ~deliverFails)
              /\ last.result # NoResult <=> (~checkFails /\ ~deliverFails)
              /\ (~checkFails /\ deliverFails)
                    => /\ last.error = SdkError(deliver.log, deliver.code)
                       /\ last.result = NoResult
              /\ (~checkFails /\ ~deliverFails)
                    => last.result =
                         [hash |-> last.response.hash,
                          height |-> last.response.height,
                          gas_wanted |-> deliver.gas_wanted,
                          gas_used |-> deliver.gas_used,
                          info |-> deliver.info,
                          tags |-> IF deliver.tags = UndefS THEN UndefS
                                   ELSE decodeTags(deliver.tags)]

\* C11 witness: the check phase passed with code 0 and the delivery phase
\* failed with code 2
C11_Witness ==
    /\ last.op = "broadcast"
    /\ last.baseTx.mode = "Commit"
    /\ last.response.check_tx.present
    /\ last.response.check_tx.code = 0
    /\ last.response.deliver_tx.present
    /\ last.response.deliver_tx.code = 2
    /\ last.error = SdkError("deliver log", 2)

\* C12: a broadcast in mode Async or Sync, or without a mode, fails with the
\* code and log of the response exactly when that code is not zero, and
\* otherwise returns a result with the hash of the response and no height,
\* gas, info or tags, whatever check phase the response holds.
C12_SubmissionCodeDecides ==
    (/\ last.op = "broadcast"
     /\ last.baseTx.mode \in {"undefined", "Async", "Sync"}
     /\ last.response # NoResponse)
        => IF last.response.code # 0
             THEN /\ last.error = SdkError(last.response.log, last.response.code)
                  /\ last.result = NoResult
             ELSE /\ last.error = NoError
                  /\ last.result = [hash |-> last.response.hash, height |-> Undef,
                                     gas_wanted |-> UndefS, gas_used |-> UndefS,
                                     info |-> UndefS, tags |-> UndefS]

\* C12 witness: a Sync response with code 0 that holds a check phase with a
\* non-zero code
C12_Witness ==
    /\ last.op = "broadcast"
    /\ last.baseTx.mode = "Sync"
    /\ last.response.code = 0
    /\ last.response.check_tx.present
    /\ last.response.check_tx.code = 1
    /\ last.error = NoError
    /\ last.result.hash = "HASH"

\* the method broadcast requests for a mode
MethodOfMode(mode) ==
    IF mode = "Commit" THEN "broadcast_tx_commit"
    ELSE IF mode = "Sync" THEN "broadcast_tx_sync"
    ELSE "broadcast_tx_async"

\* C13: a broadcast call, in flight or settled, has issued one transport
\* request, with the method of its mode and the serialized transaction as
\* parameter; when the request was rejected the call has failed with the
\* error of the transport.
C13_OneRequest ==
    /\ \A c \in DOMAIN calls :
          (calls[c].pc = "broadcast" /\ calls[c].op = "broadcast")
             => /\ Len(calls[c].requests) = 1
                /\ calls[c].requests[1].method = MethodOfMode(calls[c].baseTx.mode)
    /\ last.op = "broadcast"
          => /\ Len(last.requests) = 1
             /\ last.requests[1].method = MethodOfMode(last.baseTx.mode)
             /\ last.requests[1].tx = bytesToBase64(getData(last.before))
             /\ last.response = NoResponse => last.error = NetworkError

\* C13 witness: a broadcast in mode Sync whose request was rejected
C13_Witness ==
    /\ last.op = "broadcast"
    /\ last.baseTx.mode = "Sync"
    /\ last.response = NoResponse
    /\ last.error = NetworkError
    /\ Len(last.requests) = 1
    /\ last.requests[1].method = BroadcastTxSync

\* the response reports no failure for the mode it answers
ZeroCodes(mode, response) ==
    IF mode = "Commit"
      THEN response.check_tx.code = 0 /\ response.deliver_tx.code = 0
      ELSE response.code = 0

\* C14: a buildAndSend call issues its broadcast request only after buildTx
\* and sign have succeeded on the transaction it built: the one request it
\* issues carries the built messages with one public key and one signature;
\* a call whose build or sign failed ends with that error and without a
\* request; a call whose stages all succeeded with zero response codes
\* returns a result with the hash of the response.
C14_BuildSignBroadcast ==
    /\ \A c \in DOMAIN calls :
          calls[c].op = "buildAndSend"
            => /\ calls[c].pc = "account" => calls[c].requests = << >>
               /\ calls[c].pc = "signed"
                     => /\ calls[c].requests = << >>
                        /\ Len(txs[c].signerInfos) = 1
                        /\ Len(txs[c].signatures) = 1
               /\ calls[c].pc = "broadcast"
                     => /\ Len(calls[c].requests) = 1
                        /\ calls[c].requests[1].method = MethodOfMode(calls[c].baseTx.mode)
                        /\ calls[c].requests[1].tx = bytesToBase64(getData(txs[c]))
                        /\ Len(txs[c].msgs) = Len(calls[c].msgs)
                        /\ Len(txs[c].signerInfos) = 1
                        /\ Len(txs[c].signatures) = 1
    /\ last.op = "buildAndSend"
          => LET built == \A i \in 1..Len(last.msgs) : last.msgs[i].type \in KnownTags
                 privKey == KeyDecrypt(KeyRead(last.baseTx.from).privateKey,
                                       last.baseTx.password)
                 checked == /\ last.baseTx.from # "" /\ last.baseTx.password # ""
                            /\ decrypt /\ KeyRead(last.baseTx.from) # NoKey
             IN /\ ~built => /\ last.error.code = CODES_InvalidType
                              /\ last.requests = << >>
                              /\ last.keyReads = 0 /\ last.queries = 0
                /\ (built /\ ~checked)
                      => /\ last.error.code \in {CODES_InvalidRequest, CODES_Panic,
                                                  CODES_KeyNotFound}
                         /\ last.requests = << >>
                /\ (built /\ checked /\ privKey = "")
                      => /\ last.error \in {NetworkError,
                              SdkError("decrypto the private key error",
                                       CODES_InvalidPassword)}
                         /\ last.requests = << >>
                /\ last.requests = << >> => (last.error # NoError /\ last.result = NoResult)
                /\ last.requests # << >>
                      => /\ Len(last.requests) = 1
                         /\ built /\ checked /\ privKey # ""
                         /\ last.requests[1].tx = bytesToBase64(getData(last.after))
                         /\ Len(last.after.signerInfos) = 1
                         /\ Len(last.after.signatures) = 1
                         /\ last.after.signatures[1].key = privKey
                /\ (last.requests # << >> /\ last.response # NoResponse
                      /\ ZeroCodes(last.baseTx.mode, last.response))
                      => /\ last.error = NoError
                         /\ last.result.hash = last.response.hash

\* C14 witness: a pipeline in mode Commit that queried the account, signed,
\* broadcast and returned the hash of the response
C14_Witness ==
    /\ last.op = "buildAndSend"
    /\ last.baseTx.mode = "Commit"
    /\ last.queries = 1
    /\ Len(last.requests) = 1
    /\ last.requests[1].method = BroadcastTxCommit
    /\ Len(last.after.signatures) = 1
    /\ last.error = NoError
    /\ last.result.hash = "HASH"

\* C15 as claimed: sign_signDoc returns a signature only when name and
\* password are not empty, the key record exists and the decryption gave a
\* key; when the decryption gives nothing it fails with InvalidPassword; it
\* issues no account query and changes no transaction.
C15_SignDocRequiresKey ==
    last.op = "sign_signDoc"
        => LET privKey == KeyDecrypt(KeyRead(last.baseTx.from).privateKey,
                                     last.baseTx.password)
               checked == /\ last.baseTx.from # "" /\ last.baseTx.password # ""
                          /\ decrypt /\ KeyRead(last.baseTx.from) # NoKey
           IN /\ last.signature # NoSignature => (checked /\ privKey # "")
              /\ (checked /\ privKey = "") => last.error.code = CODES_InvalidPassword
              /\ last.queries = 0
              /\ last.after = last.before
              /\ txs[HostTx] = last.before

\* the transaction a pipeline has after its sign stage: the messages it
\* built, the public key of its own signer with its own sequence, and the
\* one signature of its own key over its own SignDoc
OwnSigned(f) ==
    LET privKey == KeyDecrypt(KeyRead(f.baseTx.from).privateKey, f.baseTx.password)
        keyed == [msgs |-> [i \in 1..Len(f.msgs) |->
                              TypedMsg(f.msgs[i].type, f.msgs[i].value)],
                  signerInfos |-> << [pubKey |-> getPublicKeyFromPrivateKey(privKey),
                                      sequence |-> f.sequence] >>,
                  signatures |-> << >>]
    IN [keyed EXCEPT !.signatures =
          << [doc |-> [body |-> keyed.msgs, authInfo |-> keyed.signerInfos,
                       accountNumber |-> f.accountNumber, chainId |-> ChainId],
              key |-> privKey] >>]

\* C16: in every state of every interleaving of the pipelines in flight, the
\* transaction of a pipeline that awaits its account query is the unsigned
\* one it built, the transaction of a pipeline that has signed, before and
\* after it issued its request, carries the public key and the one signature
\* of that pipeline alone, the request submitted that transaction, and no
\* other transaction object has been written.
C16_PipelinesIsolated ==
    /\ \A c \in DOMAIN calls :
          calls[c].op = "buildAndSend"
            => /\ calls[c].pc = "account"
                     => txs[c] = [OwnSigned(calls[c]) EXCEPT !.signerInfos = << >>,
                                                            !.signatures = << >>]
               /\ calls[c].pc = "signed"
                     => /\ txs[c] = OwnSigned(calls[c])
                        /\ calls[c].requests = << >>
               /\ calls[c].pc = "broadcast"
                     => /\ txs[c] = OwnSigned(calls[c])
                        /\ calls[c].requests =
                              << [method |-> MethodOfMode(calls[c].baseTx.mode),
                                  tx |-> [base64 |->
                                            [body |-> OwnSigned(calls[c]).msgs,
                                             authInfo |-> OwnSigned(calls[c]).signerInfos,
                                             sigs |-> OwnSigned(calls[c]).signatures]]] >>
    /\ \A r \in DOMAIN txs :
          (r = HostTx \/ calls[r].pc = "idle") => txs[r] = NoTx

\* C16 witness: two pipelines of different signers have both signed after
\* their account queries and neither has issued its request yet
C16_Witness ==
    /\ calls[1].pc = "signed"
    /\ calls[2].pc = "signed"
    /\ calls[1].requests = << >>
    /\ calls[2].requests = << >>
    /\ calls[1].baseTx.from = "alice"
    /\ calls[2].baseTx.from = "carol"
    /\ calls[1].queries = 1
    /\ calls[2].queries = 1
    /\ txs[1].signatures[1].key = "priv:alice"
    /\ txs[2].signatures[1].key = "priv:carol"

\* C17: a failed sign call reports the error of the earliest failing step
\* among empty from or password, missing decrypt capability, missing key
\* record, rejected account query and failed decryption, and has executed
\* no step after it: no key-store read after a validation or config error,
\* no account query after a missing record, no decryption after a rejected
\* query, no public key and no signature after a failed decryption.
C17_FirstFailingStep ==
    last.op = "sign"
        => LET b == last.baseTx
               validation == b.from = "" \/ b.password = ""
               config == ~decrypt
               notFound == KeyRead(b.from) = NoKey
               queryFailed == last.queries = 1 /\ last.account = NoAccount
               badPassword == KeyDecrypt(KeyRead(b.from).privateKey, b.password) = ""
           IN /\ validation
                    => /\ last.error.code = CODES_InvalidRequest
                       /\ b.from = "" =>
                             last.error.msg = "baseTx.from of the key can not be empty"
                       /\ last.keyReads = 0 /\ last.queries = 0 /\ last.decrypts = 0
              /\ (~validation /\ config)
                    => /\ last.error.code = CODES_Panic
                       /\ last.keyReads = 0 /\ last.queries = 0 /\ last.decrypts = 0
              /\ (~validation /\ ~config /\ notFound)
                    => /\ last.error.code = CODES_KeyNotFound
                       /\ last.keyReads = 1 /\ last.queries = 0 /\ last.decrypts = 0
              /\ (~validation /\ ~config /\ ~notFound /\ queryFailed)
                    => /\ last.error = NetworkError
                       /\ last.decrypts = 0
                       /\ last.after = last.before
              /\ (~validation /\ ~config /\ ~notFound /\ ~queryFailed /\ badPassword)
                    => /\ last.error.code = CODES_InvalidPassword
                       /\ last.decrypts = 1
                       /\ last.derived = 0
                       /\ last.after = last.before

\* C17 witness: the account query of a call with a wrong password was
\* rejected, and the call failed with the error of the query
C17_Witness ==
    /\ last.op = "sign"
    /\ last.baseTx.from = "alice"
    /\ last.baseTx.password = "bad"
    /\ last.queries = 1
    /\ last.account = NoAccount
    /\ last.error = NetworkError

\* the errors of the claim's failure classes: validation, config, not found,
\* rejected account query, invalid password
SignFailureCodes == {CODES_InvalidRequest, CODES_Panic, CODES_KeyNotFound,
                     NetworkError.code, CODES_InvalidPassword}

\* C18: a sign call that failed with a validation, config, not-found,
\* account-query or invalid-password error has left the transaction as it
\* received it, with no public key and no signature added; no such failure
\* leaves a transaction with a public key and no signature that had none
\* before.
C18_FailedSignLeavesTx ==
    (last.op = "sign" /\ last.error.code \in SignFailureCodes)
        => /\ last.after = last.before
           /\ txs[last.tx] = IF last.tx = HostTx THEN last.before ELSE NoTx
           /\ last.derived = 0
           /\ (hasPubKey(last.after) /\ last.after.signatures = << >>)
                 => hasPubKey(last.before)

\* C18 witness: a call on a transaction without a public key failed with the
\* invalid-password error after its account query was answered
C18_Witness ==
    /\ last.op = "sign"
    /\ last.error.code = CODES_InvalidPassword
    /\ last.queries = 1
    /\ last.account # NoAccount
    /\ ~hasPubKey(last.before)
    /\ txs[HostTx] = last.before
    /\ txs[HostTx] # NoTx

\* C19: a broadcast call on a transaction that carries no signature issues
\* the request of its mode with that transaction all the same, and its
\* outcome is the one the response gives.
C19_UnsignedIsSubmitted ==
    /\ \A c \in DOMAIN calls :
          calls[c].op = "broadcast" => /\ calls[c].pc = "broadcast"
                                       /\ Len(calls[c].requests) = 1
    /\ (last.op = "broadcast" /\ last.before.signatures = << >>)
          => /\ Len(last.requests) = 1
             /\ last.requests[1].method = MethodOfMode(last.baseTx.mode)
             /\ last.requests[1].tx.base64.sigs = << >>
             /\ last.requests[1].tx.base64.body = last.before.msgs
             /\ (last.response # NoResponse
                   /\ ZeroCodes(last.baseTx.mode, last.response))
                   => (last.error = NoError /\ last.result.hash = last.response.hash)

\* C19 witness: a transaction on which sign was never called was submitted
\* in mode Commit and accepted
C19_Witness ==
    /\ last.op = "broadcast"
    /\ last.baseTx.mode = "Commit"
    /\ last.before # NoTx
    /\ last.before.signerInfos = << >>
    /\ last.before.signatures = << >>
    /\ Len(last.requests) = 1
    /\ last.requests[1].method = BroadcastTxCommit
    /\ last.error = NoError
    /\ last.result.hash = "HASH"

\* what C20 says of the sub-queries issued and of the result
C20_Common ==
    /\ \A c \in DOMAIN calls :
          calls[c].pc = "queries"
            => /\ calls[c].subqueries =
                     << [path |-> "custom/auth/account", address |-> calls[c].address],
                        [path |-> "custom/bank/all_balances",
                         address |-> calls[c].address] >>
               /\ calls[c].info.state \in {"pending", "answered"}
               /\ calls[c].balances.state \in {"pending", "answered"}
               /\ ~(calls[c].info.state = "answered"
                      /\ calls[c].balances.state = "answered")
    /\ last.op = "queryAccount"
          => LET failed == last.info.state = "failed" \/ last.balances.state = "failed"
             IN /\ Len(last.subqueries) = 2
                /\ \A i \in 1..2 : last.subqueries[i].address = last.address
                /\ failed <=> last.error # NoError
                /\ failed => last.bankAccount = NoBankAccount
                /\ ~failed
                      => /\ last.info.state = "answered"
                         /\ last.balances.state = "answered"
                         /\ last.bankAccount =
                               [address |-> last.info.value.address,
                                accountNumber |-> last.info.value.accountNumber,
                                sequence |-> last.info.value.sequence,
                                coins |-> last.balances.value]

\* C20 as claimed: a queryAccount call issues the two sub-queries for its
\* address and completes only after both have answered; the result is the
\* account info with the balances as coins, in whichever order the answers
\* came; when a sub-query fails the call fails and returns no account.
C20_Original ==
    /\ C20_Common
    /\ last.op = "queryAccount" => /\ last.info.state \in {"answered", "failed"}
                                    /\ last.balances.state \in {"answered", "failed"}

\* C20 amended: a queryAccount call issues the two sub-queries for its
\* address; it fulfils only after both have answered, with the account info
\* whose coins are the balances, in whichever order the answers came; it
\* rejects as soon as one sub-query fails, with the error of that sub-query
\* and without an account, whether or not the other sub-query has answered.
C20_JoinOfTwoQueries ==
    /\ C20_Common
    /\ last.op = "queryAccount"
          => /\ last.info.state = "failed"
                   => /\ last.error = last.info.error
                      /\ last.balances.state \in {"pending", "answered"}
             /\ last.balances.state = "failed"
                   => /\ last.error = last.balances.error
                      /\ last.info.state \in {"pending", "answered"}
             /\ last.error = NoError
                   => last.arrivals \in {<<"info", "balances">>, <<"balances", "info">>}

\* C20 witness: the balances were answered before the account info and the
\* call returned the account with those balances as coins
C20_Witness ==
    /\ last.op = "queryAccount"
    /\ last.arrivals = <<"balances", "info">>
    /\ last.error = NoError
    /\ last.bankAccount.address = last.address
    /\ last.bankAccount.accountNumber = Num(7)
    /\ last.bankAccount.coins = <<[denom |-> "uiris", amount |-> "10"]>>
====
